---- MODULE Spec2Model ----
(***************************************************************************)
(* Model of the dynamo document store of docshelf (src/dynamo/doc.go):     *)
(* GetDoc, ListDocs, PutDoc, TagDoc and RemoveDoc over a Metadata Store    *)
(* (doc table, tag table), a Content Store (file store) and a Text Index.  *)
(* Every store call of a mutating handler is one step of the calling       *)
(* process, so that concurrent callers interleave at store-call            *)
(* granularity; the read-only handlers GetDoc and ListDocs are one step.   *)
(***************************************************************************)
EXTENDS Integers, Sequences, FiniteSets, TLC

VARIABLES docs, files, tagTable, index, clock, pc, local, ret, calls, conc

vars == <<docs, files, tagTable, index, clock, pc, local, ret, calls, conc>>

(* ---------------------------- bounds ----------------------------------- *)
MaxCalls == 4
MaxConcCalls == 2
MaxTime == 3
MaxTagArgs == 3
MaxTagDocArgs == 2
MaxConcTagDocArgs == 1

Procs == {"A", "B"}
Paths == {"p1", "p2"}
Contents == {"c1", "c2"}
Tags == {"a", "b"}
Queries == {"foo"}
CallerTimes == {0, 1}

NoRec == [none |-> TRUE]
NoFile == "<nofile>"

(* ---------------------------- errors ----------------------------------- *)
\* An error is the chain of messages built by errors.Wrap, outermost first;
\* the nil error is the empty chain.
Nil == <<>>
NotFound == <<"NotFound">>
StoreFailure == <<"StoreFailure">>
Wrap(err, msg) == <<msg>> \o err
Cause(err) == err[Len(err)]

CheckDoesNotExist(err) == err # Nil /\ Cause(err) = "NotFound"

(* ---------------------------- helpers ---------------------------------- *)
Range(s) == {s[i] : i \in 1..Len(s)}

contains(list, item) == \E i \in 1..Len(list) : list[i] = item

RECURSIVE intersect(_, _)
intersect(left, right) ==
  IF left = <<>> THEN <<>>
  ELSE IF contains(right, Head(left))
       THEN <<Head(left)>> \o intersect(Tail(left), right)
       ELSE intersect(Tail(left), right)

NoDup(s) == \A i, j \in 1..Len(s) : s[i] = s[j] => i = j

SeqsUpTo(S, n) == UNION {[1..k -> S] : k \in 0..n}

(* ---------------------------- store calls ------------------------------ *)
\* Outcome of getItem: the stored record, or NotFound when the key is absent.
getItem(table, key) ==
  IF table[key] = NoRec THEN [err |-> NotFound, item |-> NoRec]
  ELSE [err |-> Nil, item |-> table[key]]

ReadFile(fs, path) ==
  IF fs[path] = NoFile THEN [err |-> NotFound, content |-> ""]
  ELSE [err |-> Nil, content |-> fs[path]]

\* Set of outcomes of RemoveFile: a missing file is NotFound, a present one
\* is removed unless the store fails.
RemoveFile(fs, path) ==
  IF fs[path] = NoFile THEN {[err |-> NotFound, fs |-> fs]}
  ELSE {[err |-> Nil, fs |-> [fs EXCEPT ![path] = NoFile]],
        [err |-> StoreFailure, fs |-> fs]}

\* time.Now(): the clock never runs backwards; the second reading PutDoc
\* takes (doc.go:134) is dt later than the first (doc.go:131).
Now == clock

\* The error of ReadFile is dropped: the record is returned as stored.
GetDocResult_IgnoreRead(dt, fs, path) ==
  LET got == getItem(dt, path) IN
  IF got.err # Nil THEN [err |-> got.err, doc |-> NoRec]
  ELSE [err |-> Nil, doc |-> [got.item EXCEPT !.content = ReadFile(fs, path).content]]

(* ---------------------------- GetDoc ----------------------------------- *)
\* GetDoc without line 34: the content read is not attached to the doc.
GetDocResult_NoContent(dt, fs, path) ==
  LET got == getItem(dt, path) IN
  IF got.err # Nil THEN [err |-> got.err, doc |-> NoRec]
  ELSE LET rd == ReadFile(fs, path) IN
       IF rd.err # Nil THEN [err |-> rd.err, doc |-> got.item]
       ELSE [err |-> Nil, doc |-> got.item]

GetDocResult(dt, fs, path) ==
  LET got == getItem(dt, path) IN
  IF got.err # Nil THEN [err |-> got.err, doc |-> NoRec]
  ELSE LET rd == ReadFile(fs, path) IN
       IF rd.err # Nil THEN [err |-> rd.err, doc |-> got.item]
       ELSE [err |-> Nil, doc |-> [got.item EXCEPT !.content = rd.content]]

Idle == [op |-> "none"]
NoRet == [op |-> "none"]

Return(p, r) ==
  /\ pc' = [pc EXCEPT ![p] = "idle"]
  /\ local' = [local EXCEPT ![p] = Idle]
  /\ ret' = [ret EXCEPT ![p] = r]

CanStart(p) ==
  /\ pc[p] = "idle"
  /\ calls < (IF conc THEN MaxConcCalls ELSE MaxCalls)
  /\ conc \/ p = "A"

\* A sequential run is cut off after MaxCalls calls, a concurrent one after
\* MaxConcCalls.
Count == calls' = calls + 1

\* fault names the store call of GetDoc that fails for a reason other than
\* a missing item or blob, if any.
GetDocFaults == {"none", "getItem", "ReadFile"}

GetDocOutcome(dt, fs, path, fault) ==
  LET r == GetDocResult(dt, fs, path) IN
  IF fault = "getItem" THEN [err |-> StoreFailure, doc |-> NoRec]
  ELSE IF fault = "ReadFile" /\ getItem(dt, path).err = Nil
       THEN [err |-> StoreFailure, doc |-> getItem(dt, path).item]
       ELSE r

GetDoc(p) ==
  /\ CanStart(p)
  /\ \E path \in Paths, fault \in GetDocFaults :
       Return(p, [op |-> "GetDoc", path |-> path, fault |-> fault]
                 @@ GetDocOutcome(docs, files, path, fault))
  /\ Count
  /\ UNCHANGED <<docs, files, tagTable, index, clock, conc>>

(* ---------------------------- PutDoc ----------------------------------- *)
\* doc.go:126-134: createdAt is taken from the clock only when the existence
\* check reports DoesNotExist; otherwise the caller's doc is left as passed.
PutDocCreatedAt(doc, checkErr, now) ==
  IF checkErr # Nil THEN now ELSE doc.createdAt

\* The states of a PutDoc call that has passed the existence check.
PutDocStates == {"put_write", "put_item", "put_rollback"}

\* The number of the PutDoc call another process is in the middle of when
\* process p starts its own, 0 when there is none.
PutDocInFlight(p) ==
  IF \E q \in Procs \ {p} : pc[q] \in PutDocStates
  THEN local[CHOOSE q \in Procs \ {p} : pc[q] \in PutDocStates].seq
  ELSE 0

PutDocCall(p) ==
  /\ CanStart(p)
  /\ \E path \in Paths \cup {""}, content \in Contents, ca \in CallerTimes, fail \in BOOLEAN,
        dt \in {0, 1} :
       LET doc == [path |-> path, content |-> content, createdAt |-> ca, updatedAt |-> 0] IN
       IF clock + dt >= MaxTime THEN FALSE
       ELSE IF path = ""
       THEN /\ Return(p, [op |-> "PutDoc", path |-> path, content |-> content,
                          err |-> <<"can not create a new doc without a path">>])
            /\ fail = FALSE /\ dt = 0
            /\ UNCHANGED clock
       ELSE LET chk == GetDocOutcome(docs, files, path, IF fail THEN "getItem" ELSE "none") IN
            IF chk.err # Nil /\ ~CheckDoesNotExist(chk.err)
            THEN /\ Return(p, [op |-> "PutDoc", path |-> path, content |-> content,
                               err |-> Wrap(chk.err, "could not verify existing file")])
                 /\ dt = 0
                 /\ UNCHANGED clock
            ELSE /\ pc' = [pc EXCEPT ![p] = "put_write"]
                 /\ local' = [local EXCEPT ![p] =
                      [op |-> "PutDoc", content |-> content, given |-> ca,
                       prev |-> files[path], seq |-> calls + 1, during |-> PutDocInFlight(p),
                       doc |-> [doc EXCEPT !.createdAt = PutDocCreatedAt(doc, chk.err, Now),
                                           !.updatedAt = Now + dt]]]
                 /\ clock' = clock + dt + 1
                 /\ UNCHANGED ret
  /\ Count
  /\ UNCHANGED <<docs, files, tagTable, index, conc>>

PutDocWriteFile(p) ==
  /\ pc[p] = "put_write"
  /\ LET doc == local[p].doc IN
     \E ok \in BOOLEAN :
       IF ok
       THEN /\ files' = [files EXCEPT ![doc.path] = doc.content]
            /\ pc' = [pc EXCEPT ![p] = "put_item"]
            /\ UNCHANGED <<local, ret>>
       ELSE /\ Return(p, [op |-> "PutDoc", path |-> doc.path, content |-> doc.content,
                          err |-> Wrap(StoreFailure, "failed to write doc to file store")])
            /\ UNCHANGED files
  /\ UNCHANGED <<docs, tagTable, index, clock, calls, conc>>

\* Line 140 is missing: the record keeps the content.
PutDocRecord_Keep(doc) == doc

\* doc.go:140: the content is cleared before the record is marshaled
\* (marshaling a Doc does not fail).
PutDocRecord(doc) == [doc EXCEPT !.content = ""]

PutDocPutItem(p) ==
  /\ pc[p] = "put_item"
  /\ LET doc == local[p].doc IN
     \E ok \in BOOLEAN :
       IF ok
       THEN /\ docs' = [docs EXCEPT ![doc.path] = PutDocRecord(doc)]
            /\ Return(p, [op |-> "PutDoc", path |-> doc.path, content |-> doc.content,
                          seq |-> local[p].seq, during |-> local[p].during, err |-> Nil])
       ELSE /\ pc' = [pc EXCEPT ![p] = "put_rollback"]
            /\ UNCHANGED <<docs, local, ret>>
  /\ UNCHANGED <<files, tagTable, index, clock, calls, conc>>

\* The rollback's own failure is swallowed.
PutDocRollbackErr_Swallow(rmErr, path) ==
  Wrap(StoreFailure, "failed to put doc into dynamo")

\* doc.go:153-157: the error returned after the compensating RemoveFile.
PutDocRollbackErr(rmErr, path) ==
  IF rmErr # Nil THEN Wrap(rmErr, "cleanup failed for file")
  ELSE Wrap(StoreFailure, "failed to put doc into dynamo")

PutDocRollback(p) ==
  /\ pc[p] = "put_rollback"
  /\ LET doc == local[p].doc IN
     \E rm \in RemoveFile(files, doc.path) :
       /\ files' = rm.fs
       /\ Return(p, [op |-> "PutDoc", path |-> doc.path, content |-> doc.content,
                     seq |-> local[p].seq, during |-> local[p].during,
                     err |-> PutDocRollbackErr(rm.err, doc.path)])
  /\ UNCHANGED <<docs, tagTable, index, clock, calls, conc>>

(* ---------------------------- TagDoc ----------------------------------- *)
\* The short circuit is taken for every tag.
TagDocSkips_Always(tagPaths, path) == TRUE

\* The short circuit of line 174 is missing.
TagDocSkips_Never(tagPaths, path) == FALSE

\* doc.go:174-176: a tag whose path list already holds the path is skipped.
TagDocSkips(tagPaths, path) == contains(tagPaths, path)

\* doc.go:178-182: the record written back for the tag.
TagDocRecord(tag, t, path) ==
  [tag |-> IF tag.tag = "" THEN t ELSE tag.tag, paths |-> Append(tag.paths, path)]

\* Leave the loop body of tag i: next tag, or return nil after the last one.
TagDocAdvance(p, path, tags, i) ==
  IF i < Len(tags)
  THEN /\ pc' = [pc EXCEPT ![p] = "tag_fetch"]
       /\ local' = [local EXCEPT ![p] = [op |-> "TagDoc", path |-> path, tags |-> tags, i |-> i + 1]]
       /\ UNCHANGED ret
  ELSE Return(p, [op |-> "TagDoc", path |-> path, tags |-> tags, failedAt |-> 0, err |-> Nil])

TagDocCall(p) ==
  /\ CanStart(p)
  /\ \E path \in Paths,
        tags \in SeqsUpTo(Tags, IF conc THEN MaxConcTagDocArgs ELSE MaxTagDocArgs) :
       TagDocAdvance(p, path, tags, 0)
  /\ Count
  /\ UNCHANGED <<docs, files, tagTable, index, clock, conc>>

TagDocFetch(p) ==
  /\ pc[p] = "tag_fetch"
  /\ LET path == local[p].path
         tags == local[p].tags
         i == local[p].i
         t == tags[i] IN
     \E fail \in BOOLEAN :
       LET got == IF fail THEN [err |-> StoreFailure, item |-> NoRec] ELSE getItem(tagTable, t) IN
       IF got.err # Nil
       THEN Return(p, [op |-> "TagDoc", path |-> path, tags |-> tags, failedAt |-> i, err |-> got.err])
       ELSE IF TagDocSkips(got.item.paths, path)
       THEN TagDocAdvance(p, path, tags, i)
       ELSE /\ pc' = [pc EXCEPT ![p] = "tag_write"]
            /\ local' = [local EXCEPT ![p] = [op |-> "TagDoc", path |-> path, tags |-> tags, i |-> i,
                                               tag |-> TagDocRecord(got.item, t, path)]]
            /\ UNCHANGED ret
  /\ UNCHANGED <<docs, files, tagTable, index, clock, calls, conc>>

\* A conditional write: the path is appended to the record the table holds
\* at the time of the write.
TagDocPut_Merge(tt, tag) ==
  LET path == tag.paths[Len(tag.paths)]
      cur == tt[tag.tag] IN
  [tt EXCEPT ![tag.tag] =
     IF cur = NoRec THEN tag
     ELSE IF contains(cur.paths, path) THEN cur
     ELSE [cur EXCEPT !.paths = Append(cur.paths, path)]]

\* doc.go:183-193: PutItem replaces the record of the tag by the one built
\* from the copy fetched earlier; the write carries no condition.
TagDocPut(tt, tag) == [tt EXCEPT ![tag.tag] = tag]

TagDocWrite(p) ==
  /\ pc[p] = "tag_write"
  /\ LET path == local[p].path
         tags == local[p].tags
         i == local[p].i
         tag == local[p].tag IN
     \E ok \in BOOLEAN :
       IF ok
       THEN /\ tagTable' = TagDocPut(tagTable, tag)
            /\ TagDocAdvance(p, path, tags, i)
       ELSE /\ Return(p, [op |-> "TagDoc", path |-> path, tags |-> tags, failedAt |-> i, err |-> StoreFailure])
            /\ UNCHANGED tagTable
  /\ UNCHANGED <<docs, files, index, clock, calls, conc>>

(* ---------------------------- RemoveDoc -------------------------------- *)
RemoveDocCall(p) ==
  /\ CanStart(p)
  /\ \E path \in Paths :
     \E rm \in RemoveFile(files, path) :
       /\ files' = rm.fs
       /\ IF rm.err # Nil
          THEN Return(p, [op |-> "RemoveDoc", path |-> path,
                          err |-> Wrap(rm.err, "failed to remove doc from file store")])
          ELSE /\ pc' = [pc EXCEPT ![p] = "rm_item"]
               /\ local' = [local EXCEPT ![p] = [op |-> "RemoveDoc", path |-> path]]
               /\ UNCHANGED ret
  /\ Count
  /\ UNCHANGED <<docs, tagTable, index, clock, conc>>

\* The DeleteItem request is never sent.
DeleteItem_Noop(dt, path) == dt

\* doc.go:212-217: the doc table after a DeleteItem request that succeeded.
DeleteItem(dt, path) == [dt EXCEPT ![path] = NoRec]

\* The DeleteItem error is dropped.
RemoveDocItemErr_Nil(ok) == Nil

\* doc.go:217-221: what RemoveDoc returns after the DeleteItem request.
RemoveDocItemErr(ok) ==
  IF ok THEN Nil ELSE Wrap(StoreFailure, "failed to delete doc from dynamo")

RemoveDocDeleteItem(p) ==
  /\ pc[p] = "rm_item"
  /\ LET path == local[p].path IN
     \E ok \in BOOLEAN :
       /\ docs' = IF ok THEN DeleteItem(docs, path) ELSE docs
       /\ Return(p, [op |-> "RemoveDoc", path |-> path, err |-> RemoveDocItemErr(ok)])
  /\ UNCHANGED <<files, tagTable, index, clock, calls, conc>>

(* ---------------------------- ListDocs --------------------------------- *)
\* A Go slice: the nil slice is distinct from an empty non-nil one.
NilSlice == [nil |-> TRUE, elems |-> <<>>]
Slice(elems) == [nil |-> FALSE, elems |-> elems]

RECURSIVE listDocs(_, _)
listDocs(dt, paths) ==
  IF paths = <<>> THEN [err |-> Nil, docs |-> <<>>]
  ELSE LET got == getItem(dt, Head(paths)) IN
       IF got.err # Nil THEN [err |-> got.err, docs |-> <<>>]
       ELSE LET rest == listDocs(dt, Tail(paths)) IN
            IF rest.err # Nil THEN rest
            ELSE [err |-> Nil, docs |-> <<got.item>> \o rest.docs]

\* doc.go:99-103: the first tag seeds the path list, later tags narrow it.
TagPathsStep(paths, tagPaths) ==
  IF paths.nil THEN Slice(tagPaths) ELSE Slice(intersect(paths.elems, tagPaths))

RECURSIVE taggedPaths(_, _, _)
taggedPaths(tt, tags, paths) ==
  IF tags = <<>> THEN [err |-> Nil, paths |-> paths]
  ELSE LET got == getItem(tt, Head(tags)) IN
       IF got.err # Nil THEN [err |-> got.err, paths |-> paths]
       ELSE taggedPaths(tt, Tail(tags), TagPathsStep(paths, got.item.paths))

listTaggedDocs(tt, dt, tags) ==
  LET tp == taggedPaths(tt, tags, NilSlice) IN
  IF tp.err # Nil THEN [err |-> tp.err, docs |-> <<>>]
  ELSE listDocs(dt, tp.paths.elems)

RECURSIVE FilterFound(_, _)
FilterFound(tagged, foundPaths) ==
  IF tagged = <<>> THEN <<>>
  ELSE IF contains(foundPaths, Head(tagged).path)
       THEN <<Head(tagged)>> \o FilterFound(Tail(tagged), foundPaths)
       ELSE FilterFound(Tail(tagged), foundPaths)

\* search is the outcome of TextIndex.Search when query is non-empty; the
\* Metadata Store answers every getItem of the listing.
ListDocsResult(dt, tt, query, tags, search) ==
  IF query # "" /\ search.err # Nil THEN [err |-> search.err, docs |-> <<>>]
  ELSE LET foundPaths == IF query # "" THEN search.paths ELSE <<>> IN
       IF Len(tags) = 0 THEN listDocs(dt, foundPaths)
       ELSE LET tagged == listTaggedDocs(tt, dt, tags) IN
            IF tagged.err # Nil THEN [err |-> tagged.err, docs |-> <<>>]
            ELSE IF query = "" THEN tagged
            ELSE IF Len(foundPaths) > 0
                 THEN [err |-> Nil, docs |-> FilterFound(tagged.docs, foundPaths)]
                 ELSE [err |-> Nil, docs |-> <<>>]

Search(idx, query) ==
  IF query = "" THEN {[err |-> Nil, paths |-> <<>>]}
  ELSE {[err |-> Nil, paths |-> idx[query]], [err |-> StoreFailure, paths |-> <<>>]}

ListDocs(p) ==
  /\ CanStart(p)
  /\ \E query \in Queries \cup {""}, tags \in SeqsUpTo(Tags, MaxTagArgs) :
     \E search \in Search(index, query) :
       Return(p, [op |-> "ListDocs", query |-> query, tags |-> tags, search |-> search]
                 @@ ListDocsResult(docs, tagTable, query, tags, search))
  /\ Count
  /\ UNCHANGED <<docs, files, tagTable, index, clock, conc>>

(* ---------------------------- specification ---------------------------- *)
\* The tag table is durable and provisioned outside this package: tag "a"
\* starts as an empty record, tag "b" as an empty record or no record.
TagRecs == {NoRec} \cup {[tag |-> t, paths |-> <<>>] : t \in Tags}

InitProcs ==
  /\ pc = [p \in Procs |-> "idle"]
  /\ local = [p \in Procs |-> Idle]
  /\ ret = [p \in Procs |-> NoRet]
  /\ calls = 0

InitStores ==
  /\ docs = [p \in Paths |-> NoRec]
  /\ files = [p \in Paths |-> NoFile]
  /\ tagTable \in {tt \in [Tags -> TagRecs] :
                     tt["a"] # NoRec /\ \A t \in Tags : tt[t] = NoRec \/ tt[t].tag = t}
  /\ index \in [Queries -> {<<>>, <<"p1">>, <<"p2", "p1">>}]
  /\ clock = 1
  /\ InitProcs

Init == InitStores /\ conc = FALSE

InitConc == InitStores /\ conc = TRUE

\* Stores as PutDoc and TagDoc leave them: every document written once, with
\* its blob, every tag record a duplicate-free list of paths.
StoredDoc(path) ==
  LET at == IF path = "p1" THEN 1 ELSE 2 IN
  [path |-> path, content |-> "", createdAt |-> at, updatedAt |-> at]

StoredTags(t) ==
  {NoRec} \cup {[tag |-> t, paths |-> s] : s \in {q \in SeqsUpTo(Paths, Cardinality(Paths)) : NoDup(q)}}

InitList ==
  /\ docs \in [Paths -> {NoRec}] \cup {d \in [Paths -> {NoRec} \cup {StoredDoc(p) : p \in Paths}] :
                \A p \in Paths : d[p] = NoRec \/ d[p].path = p}
  /\ files = [p \in Paths |-> IF docs[p] = NoRec THEN NoFile ELSE "c1"]
  /\ tagTable \in {tt \in [Tags -> UNION {StoredTags(t) : t \in Tags}] :
                     \A t \in Tags : tt[t] \in StoredTags(t)}
  /\ index \in [Queries -> {<<>>, <<"p1">>, <<"p2", "p1">>}]
  /\ clock = 3
  /\ InitProcs
  /\ conc = FALSE

NextDoc ==
  \E p \in Procs :
    \/ GetDoc(p)
    \/ PutDocCall(p)
    \/ PutDocWriteFile(p)
    \/ PutDocPutItem(p)
    \/ PutDocRollback(p)
    \/ RemoveDocCall(p)
    \/ RemoveDocDeleteItem(p)

NextTag ==
  \E p \in Procs :
    \/ TagDocCall(p)
    \/ TagDocFetch(p)
    \/ TagDocWrite(p)

NextList ==
  \E p \in Procs :
    \/ ListDocs(p)
    \/ RemoveDocCall(p)
    \/ RemoveDocDeleteItem(p)

Next == NextDoc \/ NextTag \/ \E p \in Procs : ListDocs(p)

Spec == Init /\ [][Next]_vars

\* Sequential callers of the document operations.
DocSpec == Init /\ [][NextDoc]_vars

\* Concurrent callers of the document operations.
DocConcSpec == InitConc /\ [][NextDoc]_vars

\* Concurrent callers of TagDoc.
TagSpec == InitConc /\ [][NextTag]_vars

\* Sequential callers of TagDoc.
TagSeqSpec == Init /\ [][NextTag]_vars

\* ListDocs (and RemoveDoc) over every store content PutDoc and TagDoc produce.
ListSpec == InitList /\ [][NextList]_vars

(* ======================== properties =================================== *)
IsRollbackFailure(err) == err # Nil /\ Head(err) = "cleanup failed for file"
IsMetadataWriteFailure(err) == err # Nil /\ Head(err) = "failed to put doc into dynamo"

\* Process p called handler op and the call returned within the step.
Answered(p, op) ==
  pc[p] = "idle" /\ calls' = calls + 1 /\ pc'[p] = "idle" /\ ret'[p].op = op

\* C1: when PutDoc returns after a failed metadata write, the Content Store
\* holds no blob for the path, unless the rollback delete failed, and then the
\* error returned is a rollback failure, not a plain metadata-write failure.
C1_RollbackOrRollbackFailure ==
  [][\A p \in Procs :
       PutDocRollback(p) =>
         LET path == local[p].doc.path
             err == ret'[p].err IN
         /\ err # Nil
         /\ files'[path] # NoFile => IsRollbackFailure(err)
         /\ IsRollbackFailure(err) => ~IsMetadataWriteFailure(err)]_vars

C1_Witness ==
  \E p \in Procs :
    /\ pc[p] = "idle" /\ ret[p].op = "PutDoc"
    /\ IsMetadataWriteFailure(ret[p].err)
    /\ files[ret[p].path] = NoFile

\* C2: a later successful PutDoc to a path that already has a Document record
\* stores the createdAt of the existing record, whatever the caller passed.
C2_CreatedAtPreserved ==
  [][\A p \in Procs :
       (PutDocPutItem(p) /\ pc'[p] = "idle" /\ docs[local[p].doc.path] # NoRec) =>
         docs'[local[p].doc.path].createdAt = docs[local[p].doc.path].createdAt]_vars

\* C3: a GetDoc that directly follows a successful PutDoc to the same path
\* succeeds, the stores answering, and returns the path and the content that
\* were put.
C3_PutThenGet ==
  [][\A p \in Procs :
       (/\ ret[p].op = "PutDoc" /\ ret[p].err = Nil
        /\ GetDoc(p) /\ ret'[p].path = ret[p].path /\ ret'[p].fault = "none") =>
         /\ ret'[p].err = Nil
         /\ ret'[p].doc.path = ret[p].path
         /\ ret'[p].doc.content = ret[p].content]_vars

C3_Witness ==
  \E p \in Procs :
    /\ pc[p] = "idle" /\ ret[p].op = "GetDoc" /\ ret[p].err = Nil
    /\ ret[p].doc.path = "p1" /\ ret[p].doc.content = "c2"

TagPathSet(tt, t) == IF tt[t] = NoRec THEN {} ELSE Range(tt[t].paths)

CarriesAll(tt, path, tags) == \A i \in 1..Len(tags) : path \in TagPathSet(tt, tags[i])

Corpus(dt) == {dt[path] : path \in {q \in Paths : dt[q] # NoRec}}

ResultPaths(r) == [i \in 1..Len(r.docs) |-> r.docs[i].path]

\* C5: with an empty query and at least one tag, ListDocs returns exactly the
\* documents whose path is in the path set of every tag of the list.
C5_TagIntersection ==
  [][\A p \in Procs :
       (Answered(p, "ListDocs") /\ ret'[p].query = "" /\ ret'[p].tags # <<>>) =>
         /\ ret'[p].err = Nil
         /\ Range(ret'[p].docs) =
              {d \in Corpus(docs) : CarriesAll(tagTable, d.path, ret'[p].tags)}]_vars

\* C6: a tag with an empty path set or without a record, at any position of
\* the tag list, makes ListDocs return an empty result and no error.
C6_EmptyTagFailsClosed ==
  [][\A p \in Procs :
       (/\ Answered(p, "ListDocs") /\ ret'[p].search.err = Nil
        /\ \E i \in 1..Len(ret'[p].tags) : TagPathSet(tagTable, ret'[p].tags[i]) = {}) =>
         ret'[p].err = Nil /\ ret'[p].docs = <<>>]_vars

\* C7: with a query and at least one tag, ListDocs returns exactly the
\* documents whose path is in the tag intersection and in the Text Index
\* result, in the order of the tag intersection.
C7_TagsAndQuery ==
  [][\A p \in Procs :
       (/\ Answered(p, "ListDocs") /\ ret'[p].query # "" /\ ret'[p].tags # <<>>
        /\ ret'[p].search.err = Nil) =>
         LET tags == ret'[p].tags
             first == IF tagTable[tags[1]] = NoRec THEN <<>> ELSE tagTable[tags[1]].paths
             Both(path) == /\ docs[path] # NoRec
                           /\ CarriesAll(tagTable, path, tags)
                           /\ contains(ret'[p].search.paths, path) IN
         /\ ret'[p].err = Nil
         /\ ResultPaths(ret'[p]) = SelectSeq(first, Both)]_vars

\* C8: without tags, ListDocs with a query returns exactly the documents whose
\* path the Text Index returned (every returned path having a Document
\* record), and with an empty query the entire corpus.
C8_NoTags ==
  [][\A p \in Procs :
       (/\ Answered(p, "ListDocs") /\ ret'[p].tags = <<>> /\ ret'[p].search.err = Nil
        /\ \A i \in 1..Len(ret'[p].search.paths) : docs[ret'[p].search.paths[i]] # NoRec) =>
         /\ ret'[p].err = Nil
         /\ Range(ret'[p].docs) =
              IF ret'[p].query = "" THEN Corpus(docs)
              ELSE {d \in Corpus(docs) : contains(ret'[p].search.paths, d.path)}]_vars

\* The path is a blob without a Document record.
OrphanBlob(fs, dt, path) == fs[path] # NoFile /\ dt[path] = NoRec

\* C9: a RemoveDoc that returns success leaves neither the blob nor the
\* Document record, and a GetDoc that directly follows, the stores answering,
\* fails with NotFound.
C9_RemoveThenGetNotFound ==
  [][\A p \in Procs :
       /\ (RemoveDocDeleteItem(p) /\ ret'[p].err = Nil) =>
            files'[local[p].path] = NoFile /\ docs'[local[p].path] = NoRec
       /\ (/\ ret[p].op = "RemoveDoc" /\ ret[p].err = Nil
           /\ GetDoc(p) /\ ret'[p].path = ret[p].path /\ ret'[p].fault = "none") =>
            ret'[p].err = NotFound]_vars

C9_Witness ==
  \E p \in Procs :
    /\ pc[p] = "idle" /\ ret[p].op = "RemoveDoc" /\ ret[p].err = Nil
    /\ files[ret[p].path] = NoFile /\ docs[ret[p].path] = NoRec

\* C10: a failed content delete returns at once and leaves the Document
\* record; a failed metadata delete returns an error; no step of RemoveDoc
\* leaves a blob without a Document record where there was none before.
C10_RemoveDocFailures ==
  [][\A p \in Procs :
       /\ (RemoveDocCall(p) /\ files' = files) =>
            pc'[p] = "idle" /\ ret'[p].err # Nil /\ docs' = docs
       /\ (RemoveDocCall(p) /\ pc'[p] = "rm_item") => files'[local'[p].path] = NoFile
       /\ (RemoveDocDeleteItem(p) /\ docs'[local[p].path] # NoRec) => ret'[p].err # Nil
       /\ (RemoveDocCall(p) \/ RemoveDocDeleteItem(p)) =>
            \A path \in Paths :
              ~OrphanBlob(files, docs, path) => ~OrphanBlob(files', docs', path)]_vars

\* The blob is gone, the record is still there, and RemoveDoc said so.
C10_Witness ==
  \E p \in Procs :
    /\ pc[p] = "idle" /\ ret[p].op = "RemoveDoc"
    /\ ret[p].err = Wrap(StoreFailure, "failed to delete doc from dynamo")
    /\ files[ret[p].path] = NoFile /\ docs[ret[p].path] # NoRec

\* C11: every Document record of the Metadata Store has an empty content
\* field, whatever PutDoc calls were made; the content of a stored document
\* is the blob of the Content Store under the same path.
C11_NoContentInMetadata ==
  \A path \in Paths : docs[path] # NoRec => docs[path].content = ""

C11_Witness ==
  \E p \in Procs :
    /\ pc[p] = "idle" /\ ret[p].op = "PutDoc" /\ ret[p].err = Nil
    /\ ret[p].content # "" /\ files[ret[p].path] = ret[p].content
    /\ docs[ret[p].path] # NoRec /\ docs[ret[p].path].content = ""

\* C12: GetDoc fails with NotFound when there is no Document record for the
\* path; when the record exists and the blob is missing or unreadable it
\* returns the Content Store's error; it never succeeds with empty content.
C12_GetDocErrors ==
  [][\A p \in Procs :
       GetDoc(p) =>
         LET path == ret'[p].path
             err == ret'[p].err IN
         /\ (ret'[p].fault = "none" /\ docs[path] = NoRec) => err = NotFound
         /\ (ret'[p].fault = "none" /\ docs[path] # NoRec /\ files[path] = NoFile) =>
              err = ReadFile(files, path).err /\ err # Nil
         /\ (ret'[p].fault = "ReadFile" /\ docs[path] # NoRec) => err = StoreFailure
         /\ err = Nil => ret'[p].doc.content # ""]_vars

\* A record without its blob: GetDoc answered with the Content Store's error.
C12_Witness ==
  \E p \in Procs :
    /\ pc[p] = "idle" /\ ret[p].op = "GetDoc" /\ ret[p].fault = "none"
    /\ docs[ret[p].path] # NoRec /\ files[ret[p].path] = NoFile
    /\ ret[p].err = NotFound

\* C13: PutDoc sets createdAt to the current time exactly when the Metadata
\* Store has no Document record for the path; when a record exists, with or
\* without its blob, createdAt stays as stored (judged for a caller that
\* passes the stored createdAt back); an existence check that fails with
\* another error than NotFound returns before either store is written.
C13_CreateIffNoRecord ==
  [][\A p \in Procs :
       /\ (PutDocCall(p) /\ pc'[p] = "put_write") =>
            LET d == local'[p].doc IN
            /\ docs[d.path] = NoRec => d.createdAt = Now
            /\ (docs[d.path] # NoRec /\ local'[p].given = docs[d.path].createdAt) =>
                 d.createdAt = docs[d.path].createdAt
       /\ (PutDocCall(p) /\ pc'[p] = "idle" /\ ret'[p].path # "") =>
            /\ Head(ret'[p].err) = "could not verify existing file"
            /\ docs' = docs /\ files' = files]_vars

\* C14: the error PutDoc returns after a failed metadata write and the
\* compensating delete reports the metadata-write failure, and when the
\* delete failed too it reports the rollback failure in addition to it.
C14_BothFailuresReported ==
  [][\A p \in Procs :
       PutDocRollback(p) =>
         LET path == local[p].doc.path
             err == ret'[p].err IN
         /\ contains(err, "failed to put doc into dynamo")
         /\ files'[path] # NoFile => contains(err, "cleanup failed for file")]_vars

\* C15: TagDoc handles its tags in order; when the fetch or the write of tag
\* k fails it returns that error at once, the step writes nothing, the tags
\* before k hold the path, and no step of TagDoc touches the record of
\* another tag than the one it is at (nothing later is written, nothing
\* earlier is rolled back).
C15_FailFastNotAtomic ==
  [][\A p \in Procs :
       (TagDocFetch(p) \/ TagDocWrite(p)) =>
         LET path == local[p].path
             tags == local[p].tags
             k == local[p].i IN
         /\ \A t \in Tags : t # tags[k] => tagTable'[t] = tagTable[t]
         /\ (pc'[p] = "idle" /\ ret'[p].err # Nil) =>
              /\ ret'[p].failedAt = k
              /\ ret'[p].err \in {NotFound, StoreFailure}
              /\ tagTable' = tagTable
              /\ \A j \in 1..(k - 1) : contains(tagTable'[tags[j]].paths, path)
         /\ (pc'[p] = "idle" /\ ret'[p].err = Nil) => k = Len(tags)
         /\ pc'[p] = "tag_fetch" => local'[p].i = k + 1]_vars

\* The second of two tags failed after the first was committed.
C15_Witness ==
  \E p \in Procs :
    /\ pc[p] = "idle" /\ ret[p].op = "TagDoc" /\ ret[p].err # Nil
    /\ ret[p].failedAt = 2 /\ ret[p].tags[1] # ret[p].tags[2]
    /\ contains(tagTable[ret[p].tags[1]].paths, ret[p].path)
    /\ tagTable[ret[p].tags[2]] # NoRec
    /\ ~contains(tagTable[ret[p].tags[2]].paths, ret[p].path)

\* C16: TagDoc's write replaces the Tag record by the copy the call fetched
\* plus its own path, whatever was written in between; so two concurrent
\* TagDoc calls on one tag with different paths can both return success and
\* leave a record with only one of the two paths (C16_Witness is that state).
C16_LostUpdate ==
  [][\A p \in Procs :
       (TagDocWrite(p) /\ tagTable' # tagTable) =>
         LET t == local[p].tag.tag IN
         /\ tagTable'[t] = local[p].tag
         /\ \A path \in Paths :
              (contains(tagTable[t].paths, path) /\ ~contains(local[p].tag.paths, path)) =>
                ~contains(tagTable'[t].paths, path)]_vars

\* Both calls returned success and one path is missing from the record.
C16_Witness ==
  /\ \A p \in Procs : pc[p] = "idle" /\ ret[p].op = "TagDoc" /\ ret[p].err = Nil
  /\ ret["A"].tags = ret["B"].tags /\ Len(ret["A"].tags) = 1
  /\ ret["A"].path # ret["B"].path
  /\ LET rec == tagTable[ret["A"].tags[1]] IN
     contains(rec.paths, ret["A"].path) # contains(rec.paths, ret["B"].path)

\* C17: a PutDoc whose metadata write failed and whose rollback delete
\* succeeded leaves the blob and the Document record of the path as they
\* were before the call; a path that held a document still holds it and
\* GetDoc returns it.
C17_RollbackRestores ==
  [][\A p \in Procs :
       (PutDocRollback(p) /\ IsMetadataWriteFailure(ret'[p].err)) =>
         LET path == local[p].doc.path
             prev == local[p].prev IN
         /\ files'[path] = prev
         /\ docs'[path] = docs[path]
         /\ (prev # NoFile /\ docs[path] # NoRec) =>
              GetDocResult(docs', files', path) =
                [err |-> Nil, doc |-> [docs[path] EXCEPT !.content = prev]]]_vars

\* The PutDoc calls that processes a and b returned from last overlapped.
PutDocOverlap(a, b) == ret[a].during = ret[b].seq \/ ret[b].during = ret[a].seq

\* C18: when two concurrent PutDoc calls on one path have returned, one with
\* success and the other after a failed metadata write, GetDoc of the path
\* succeeds with the content of the successful call.
C18_RollbackKeepsOther ==
  \A a, b \in Procs :
    (/\ a # b /\ pc[a] = "idle" /\ pc[b] = "idle"
     /\ ret[a].op = "PutDoc" /\ ret[b].op = "PutDoc" /\ ret[a].path = ret[b].path
     /\ ret[b].err = Nil
     /\ IsMetadataWriteFailure(ret[a].err) \/ IsRollbackFailure(ret[a].err)
     /\ PutDocOverlap(a, b)
     /\ ret[a].seq = calls \/ ret[b].seq = calls) =>
      LET got == GetDocResult(docs, files, ret[b].path) IN
      got.err = Nil /\ got.doc.content = ret[b].content

\* C19: a RemoveDoc retried on a path whose blob an earlier RemoveDoc deleted
\* before failing at the metadata delete passes the content step, and its
\* metadata delete, unless the store fails again, returns success with the
\* orphaned Document record removed.
C19_RetryClearsOrphan ==
  [][\A p \in Procs :
       /\ (/\ ret[p].op = "RemoveDoc"
           /\ ret[p].err = Wrap(StoreFailure, "failed to delete doc from dynamo")
           /\ files[ret[p].path] = NoFile /\ docs[ret[p].path] # NoRec
           /\ RemoveDocCall(p)
           /\ ret[p].path = (IF pc'[p] = "idle" THEN ret'[p].path ELSE local'[p].path)) =>
            pc'[p] = "rm_item"
       /\ RemoveDocDeleteItem(p) =>
            \/ ret'[p].err = Nil /\ docs'[local[p].path] = NoRec
            \/ ret'[p].err = Wrap(StoreFailure, "failed to delete doc from dynamo")]_vars

\* C20: RemoveDoc changes no Tag record; and once RemoveDoc(path) returned
\* success with the path still listed under tag t, ListDocs("", t), the tag's
\* other paths all having a Document record, returns success with exactly
\* the documents that exist and carry t, none of them for the removed path.
C20_ListAfterRemove ==
  [][\A p \in Procs :
       /\ (RemoveDocCall(p) \/ RemoveDocDeleteItem(p)) => tagTable' = tagTable
       /\ (/\ ret[p].op = "RemoveDoc" /\ ret[p].err = Nil
           /\ Answered(p, "ListDocs") /\ ret'[p].query = "" /\ Len(ret'[p].tags) = 1
           /\ ret[p].path \in TagPathSet(tagTable, ret'[p].tags[1])
           /\ \A path \in TagPathSet(tagTable, ret'[p].tags[1]) \ {ret[p].path} :
                docs[path] # NoRec) =>
            /\ ret'[p].err = Nil
            /\ Range(ret'[p].docs) =
                 {d \in Corpus(docs) : d.path \in TagPathSet(tagTable, ret'[p].tags[1])}
            /\ \A i \in 1..Len(ret'[p].docs) : ret'[p].docs[i].path # ret[p].path]_vars

====
